---- MODULE Spec2Model ----
(***************************************************************************)
(* NMEA 0183 sentence decoder (nmea-parser): the framing, dispatch and     *)
(* two-fragment AIS reassembly of decode_sentence (src/src/lib.rs).        *)
(*                                                                         *)
(* A sentence is a sequence of one-character strings.  An Option value is  *)
(* a sequence of length 0 (None) or 1 (Some).                              *)
(***************************************************************************)
EXTENDS Integers, Sequences, FiniteSets, TLC

(***************************************************************************)
(* Characters and strings                                                  *)
(***************************************************************************)

\* The printable ASCII characters, code 32 first.
Ascii ==
  << " ", "!", "\"", "#", "$", "%", "&", "'", "(", ")", "*", "+", ",", "-", ".", "/",
     "0", "1", "2", "3", "4", "5", "6", "7", "8", "9", ":", ";", "<", "=", ">", "?",
     "@", "A", "B", "C", "D", "E", "F", "G", "H", "I", "J", "K", "L", "M", "N", "O",
     "P", "Q", "R", "S", "T", "U", "V", "W", "X", "Y", "Z", "[", "\\", "]", "^", "_",
     "<grave>", "a", "b", "c", "d", "e", "f", "g", "h", "i", "j", "k", "l", "m", "n", "o",
     "p", "q", "r", "s", "t", "u", "v", "w", "x", "y", "z", "{", "|", "}", "~" >>

\* The code of each character, tabulated once.
OrdTable ==
  [c \in { Ascii[i] : i \in 1..Len(Ascii) } |->
     31 + (CHOOSE i \in 1..Len(Ascii) : Ascii[i] = c)]

\* c as u8
Ord(c) == OrdTable[c]

Some(v) == << v >>
None == << >>

\* str::find: the 1-based index of the first c in s, 0 when there is none.
find(s, c) ==
  IF \E i \in 1..Len(s) : s[i] = c
    THEN CHOOSE i \in 1..Len(s) : s[i] = c /\ \A j \in 1..(i - 1) : s[j] # c
    ELSE 0

\* str::rfind: the 1-based index of the last c in s, 0 when there is none.
rfind(s, c) ==
  IF \E i \in 1..Len(s) : s[i] = c
    THEN CHOOSE i \in 1..Len(s) : s[i] = c /\ \A j \in (i + 1)..Len(s) : s[j] # c
    ELSE 0

\* &s[a..b] of Rust (0-based, b exclusive) is in range iff a <= b <= len.
SliceOk(s, a, b) == a <= b /\ b <= Len(s)
Slice(s, a, b) == SubSeq(s, a + 1, b)

\* str::split(","): the fields of s, at least one.
RECURSIVE split(_)
split_at(s, i) ==
  IF i = 0 THEN << s >>
  ELSE << SubSeq(s, 1, i - 1) >> \o split(SubSeq(s, i + 1, Len(s)))

split(s) == split_at(s, find(s, ","))

Digits == << "0", "1", "2", "3", "4", "5", "6", "7", "8", "9" >>
IsDigit(c) == \E d \in 1..10 : Digits[d] = c
DigitVal(c) == (CHOOSE d \in 1..10 : Digits[d] = c) - 1

RECURSIVE DecimalValue(_)
DecimalValue(s) ==
  IF s = << >> THEN 0
  ELSE 10 * DecimalValue(SubSeq(s, 1, Len(s) - 1)) + DigitVal(s[Len(s)])

RECURSIVE strip_zeros(_)
strip_zeros(s) ==
  IF Len(s) > 1 /\ s[1] = "0" THEN strip_zeros(Tail(s)) ELSE s

\* The digits of a str::parse::<uN>() argument: an optional plus sign, then one
\* or more decimal digits; None otherwise.
all_digits(d) ==
  IF d # << >> /\ (\A i \in 1..Len(d) : IsDigit(d[i]))
    THEN Some(strip_zeros(d))
    ELSE None

parse_digits(s) == all_digits(IF s # << >> /\ s[1] = "+" THEN Tail(s) ELSE s)

\* s.parse::<u8>().ok(): the value must fit 8 bits.
digits_u8(d) ==
  IF d # None /\ Len(d[1]) <= 3 /\ DecimalValue(d[1]) <= 255
    THEN Some(DecimalValue(d[1]))
    ELSE None

parse_u8(s) == digits_u8(parse_digits(s))

\* s.parse::<u64>().ok().  Values of ten digits and more are outside the
\* sentences of this model (a u64 holds up to twenty digits).
digits_u64(d) ==
  IF d # None /\ Len(d[1]) <= 9 THEN Some(DecimalValue(d[1])) ELSE None

parse_u64(s) == digits_u64(parse_digits(s))

(***************************************************************************)
(* Checksum (lib.rs 57-73)                                                 *)
(***************************************************************************)

RECURSIVE xor(_, _)
xor(a, b) ==
  IF a = 0 /\ b = 0 THEN 0
  ELSE ((a + b) % 2) + 2 * xor(a \div 2, b \div 2)

\* The sentence without its checksum part, and the checksum given ("" if none).
split_at_star(sentence, pos) ==
  IF pos # 0
    THEN [sentence |-> SubSeq(sentence, 1, pos - 1),
          checksum_hex_given |-> SubSeq(sentence, pos + 1, Len(sentence))]
    ELSE [sentence |-> sentence, checksum_hex_given |-> << >>]

checksum_split(sentence) == split_at_star(sentence, rfind(sentence, "*"))

\* The XOR of the character codes of s[lo..hi] (halving keeps the evaluation shallow).
RECURSIVE xor_range(_, _, _)
xor_range(s, lo, hi) ==
  IF lo > hi THEN 0
  ELSE IF lo = hi THEN Ord(s[lo])
  ELSE xor(xor_range(s, lo, (lo + hi) \div 2), xor_range(s, ((lo + hi) \div 2) + 1, hi))

\* for c in sentence.chars().skip(1) { checksum = checksum ^ (c as u8) }
checksum_of(sentence) == xor_range(sentence, 2, Len(sentence))

HexUpper == << "0", "1", "2", "3", "4", "5", "6", "7", "8", "9",
               "A", "B", "C", "D", "E", "F" >>

\* format!("{:02X?}", checksum) of a u8
checksum_hex_calculated(checksum) ==
  << HexUpper[(checksum \div 16) + 1], HexUpper[(checksum % 16) + 1] >>

\* The gate of line 70: TRUE when the sentence is rejected as corrupted.
checksum_rejects_unconditional(body, given) ==
  checksum_hex_calculated(checksum_of(body)) # given

checksum_rejects(body, given) ==
  checksum_hex_calculated(checksum_of(body)) # given /\ given # << >>

(***************************************************************************)
(* Results of decode_sentence                                              *)
(*   kind "Ok" / tag "Incomplete"  : Ok(ParsedSentence::Incomplete)        *)
(*   kind "Handler" / tag <module> : what the handler of that module       *)
(*       returns for the arguments recorded (bv, station, own, nav, body); *)
(*       message holds the record itself for ais_vdm_t19, None otherwise   *)
(*   kind "Err" / tag <error>      : Err(..); mtype and stype are the      *)
(*       values formatted into the message                                 *)
(*   kind "Panic"                  : the call panics (slice out of range)  *)
(***************************************************************************)
Result(kind, tag) ==
  [kind |-> kind, tag |-> tag, bv |-> << >>, station |-> "", own |-> FALSE,
   nav |-> "", mtype |-> 0, stype |-> << >>, body |-> << >>, message |-> << >>]

Incomplete == Result("Ok", "Incomplete")
Panic == Result("Panic", "slice index out of range")
ErrCorrupted == Result("Err", "Corrupted NMEA sentence")
ErrInvalid(sentence) == [Result("Err", "Invalid NMEA sentence") EXCEPT !.body = sentence]
ErrFragmentField == Result("Err", "Failed to parse fragment count")
ErrSentence(tag, stype) == [Result("Err", tag) EXCEPT !.stype = stype]
ErrMessageType(tag, stype, mtype) ==
  [Result("Err", tag) EXCEPT !.stype = stype, !.mtype = mtype]
GnssHandler(module, sentence, nav) ==
  [Result("Handler", module) EXCEPT !.body = sentence, !.nav = nav]

(***************************************************************************)
(* Sentence type, talker (lib.rs 76-131)                                   *)
(***************************************************************************)

\* Lines 76-82: the text before the first ','; None when there is no ','.
type_before(sentence, i) == IF i # 0 THEN Some(Slice(sentence, 0, i - 1)) ELSE None

sentence_type_of(sentence) == type_before(sentence, find(sentence, ","))

\* Lines 87-96: the navigation system of a talker id.
NavigationSystem(talker) ==
  CASE talker = << "G", "N" >> -> "Combination"
    [] talker = << "G", "P" >> -> "Gps"
    [] talker = << "G", "L" >> -> "Glonass"
    [] talker = << "G", "A" >> -> "Galileo"
    [] talker = << "B", "D" >> -> "Beidou"
    [] talker = << "G", "I" >> -> "Navic"
    [] talker = << "Q", "Z" >> -> "Qzss"
    [] OTHER -> "Other"

\* Lines 85-100.  panic: one of the two slices is out of range.
nav_system_of(sentence_type) ==
  IF ~SliceOk(sentence_type, 0, 1) THEN [panic |-> TRUE, value |-> None]
  ELSE IF Slice(sentence_type, 0, 1) = << "$" >>
    THEN IF ~SliceOk(sentence_type, 1, 3) THEN [panic |-> TRUE, value |-> None]
         ELSE [panic |-> FALSE,
               value |-> Some(NavigationSystem(Slice(sentence_type, 1, 3)))]
    ELSE [panic |-> FALSE, value |-> None]

\* Lines 101-106 and 126-131: format!("{mark}{}", &sentence_type[3..6]) when
\* the talker was recognized and the type has at most 6 characters.
shorten(sentence_type, recognized, mark) ==
  IF recognized /\ Len(sentence_type) <= 6
    THEN IF ~SliceOk(sentence_type, 3, 6) THEN [panic |-> TRUE, value |-> sentence_type]
         ELSE [panic |-> FALSE, value |-> << mark >> \o Slice(sentence_type, 3, 6)]
    ELSE [panic |-> FALSE, value |-> sentence_type]

\* Lines 111-120: the station of a talker id.
Station(talker) ==
  CASE talker = << "A", "B" >> -> "BaseAisStation"
    [] talker = << "A", "D" >> -> "DependentAisBaseStation"
    [] talker = << "A", "I" >> -> "MobileAisStation"
    [] talker = << "A", "N" >> -> "AidToNavigationAisStation"
    [] talker = << "A", "R" >> -> "AisReceivingStation"
    [] talker = << "A", "S" >> -> "LimitedBaseStation"
    [] talker = << "A", "T" >> -> "AisTransmittingStation"
    [] talker = << "A", "X" >> -> "RepeaterAisStation"
    [] OTHER -> "Other"

\* Lines 109-125.
station_of(sentence_type) ==
  IF ~SliceOk(sentence_type, 0, 1) THEN [panic |-> TRUE, value |-> None]
  ELSE IF Slice(sentence_type, 0, 1) = << "!" >>
    THEN IF ~SliceOk(sentence_type, 1, 3) THEN [panic |-> TRUE, value |-> None]
         ELSE [panic |-> FALSE, value |-> Some(Station(Slice(sentence_type, 1, 3)))]
    ELSE [panic |-> FALSE, value |-> None]

\* Lines 84-131 in order: the shortened sentence type, the navigation system
\* and the station, or the panic of the first slice that is out of range.
\* nav and station are what lines 85-100 and 109-125 give, gnss_type and
\* ais_type the sentence type after lines 101-106 and 126-131.
header_ais_type(nav, gnss_type, station, ais_type) ==
  IF nav.panic \/ gnss_type.panic \/ station.panic \/ ais_type.panic
    THEN [panic |-> TRUE, sentence_type |-> << >>, nav_system |-> None, station |-> None]
    ELSE [panic |-> FALSE, sentence_type |-> ais_type.value,
          nav_system |-> nav.value, station |-> station.value]

header_station(nav, gnss_type, station) ==
  header_ais_type(nav, gnss_type, station,
                  shorten(gnss_type.value, station.value # None, "!"))

header_gnss_type(nav, gnss_type) ==
  header_station(nav, gnss_type, station_of(gnss_type.value))

header_nav(sentence_type, nav) ==
  header_gnss_type(nav, shorten(sentence_type, nav.value # None, "$"))

header(sentence_type) == header_nav(sentence_type, nav_system_of(sentence_type))

unwrap_or(opt, default) == IF opt = None THEN default ELSE opt[1]

(***************************************************************************)
(* AIS header fields (lib.rs 211-249)                                      *)
(***************************************************************************)

Field(fields, num) == IF num + 1 <= Len(fields) THEN Some(fields[num + 1]) ELSE None

\* The loop over sentence.split(","): field 1 and 2 must parse as u8 (the loop
\* returns at the first that does not), field 3 is the optional message id.
\* count and number are None when the field is there and does not parse, and
\* the initial 0 when the sentence ends before the field.
field_u8(field) == IF field = None THEN Some(0) ELSE parse_u8(field[1])

field_u64(field) == IF field = None THEN None ELSE parse_u64(field[1])

fields_parsed(fields, count, number) ==
  [err |-> count = None \/ number = None,
   fragment_count |-> IF count # None /\ number # None THEN count[1] ELSE 0,
   fragment_number |-> IF count # None /\ number # None THEN number[1] ELSE 0,
   message_id |-> field_u64(Field(fields, 3)),
   radio_channel_code |-> Field(fields, 4),
   payload_string |-> unwrap_or(Field(fields, 5), << >>)]

fields_of(fields) ==
  fields_parsed(fields, field_u8(Field(fields, 1)), field_u8(Field(fields, 2)))

ais_fields(sentence) == fields_of(split(sentence))

(***************************************************************************)
(* util: payload unpacker, bit extractor, reassembly store.  The module    *)
(* util is not among the source files; these follow spec.md 4.1, 4.2, 4.4  *)
(* and 3 (ReassemblyKey).                                                  *)
(***************************************************************************)

\* The six bits of v, most significant first.
six_bits(v) == [i \in 1..6 |-> (v \div (2 ^ (6 - i))) % 2]

\* v = c - 48; if v > 40 then v = v - 8.
armor_fold(v) == IF v > 40 THEN v - 8 ELSE v

armor_value(c) == armor_fold(Ord(c) - 48)

\* A character the mapping takes to a six-bit value.
armor_ok(c) == Ord(c) >= 48 /\ armor_value(c) <= 63

\* The mapping of every character, tabulated once.
ArmorTable ==
  [c \in DOMAIN OrdTable |->
     [ok |-> armor_ok(c),
      bits |-> IF armor_ok(c) THEN six_bits(armor_value(c)) ELSE << >>]]

\* Six bits per character, in order.
unpack(payload) ==
  [i \in 1..(6 * Len(payload)) |->
     ArmorTable[payload[((i - 1) \div 6) + 1]].bits[((i - 1) % 6) + 1]]

\* parse_payload(..).ok(): the bit vector, None on a character out of range.
parse_payload(payload) ==
  IF \A i \in 1..Len(payload) : ArmorTable[payload[i]].ok
    THEN Some(unpack(payload))
    ELSE None

RECURSIVE bits_value(_)
bits_value(bits) ==
  IF bits = << >> THEN 0
  ELSE 2 * bits_value(SubSeq(bits, 1, Len(bits) - 1)) + bits[Len(bits)]

\* pick_u64(bv, index, len): zero when the range ends past the vector.
pick_u64(bv, index, len) ==
  IF index + len <= Len(bv) THEN bits_value(SubSeq(bv, index + 1, index + len)) ELSE 0

\* The key of a pending fragment: every field of ReassemblyKey.
make_fragment_key(sentence_type, message_id, fragment_count, fragment_num, radio_channel_code) ==
  << sentence_type, message_id, fragment_count, fragment_num, radio_channel_code >>

\* NmeaStore::pull_string: the entry at key is removed and returned.
pull_string(nmea_store, key) ==
  IF key \in DOMAIN nmea_store
    THEN [value |-> Some(nmea_store[key]),
          store |-> [k \in DOMAIN nmea_store \ {key} |-> nmea_store[k]]]
    ELSE [value |-> None, store |-> nmea_store]

\* NmeaStore::push_string: the entry at key is inserted or overwritten.
push_string(nmea_store, key, value) ==
  [k \in DOMAIN nmea_store \cup {key} |-> IF k = key THEN value ELSE nmea_store[k]]

(***************************************************************************)
(* ais::vdm_t19::handle (vdm_t19.rs 20-88)                                 *)
(***************************************************************************)

\* pick_i64(bv, index, len): the field read as pick_u64 reads it, then sign
\* extended from bit len - 1 (spec.md 4.1).
sign_extend(raw, len) == IF raw >= 2 ^ (len - 1) THEN raw - 2 ^ len ELSE raw

pick_i64(bv, index, len) == sign_extend(pick_u64(bv, index, len), len)

\* An f64 that is (raw as f64) * 0.1, (raw as f64) / 600000.0 or raw as f64:
\* the value num / den.
scaled(num, den) == [num |-> num, den |-> den]

\* Lines 30-37.
sog_knots(raw) == IF raw < 1023 THEN Some(scaled(raw, 10)) ELSE None

\* Lines 39-46; 0x6791AC0 = 108600000.  A field of 28 bits is within i32.
longitude(lon_raw) ==
  IF lon_raw # 108600000 THEN Some(scaled(lon_raw, 600000)) ELSE None

\* Lines 47-54; 0x3412140 = 54600000.
latitude(lat_raw) ==
  IF lat_raw # 54600000 THEN Some(scaled(lat_raw, 600000)) ELSE None

\* Lines 55-62; 0xE10 = 3600.
cog_clamped(cog_raw) == IF cog_raw < 3600 THEN Some(scaled(cog_raw, 10)) ELSE None

cog(cog_raw) == IF cog_raw # 3600 THEN Some(scaled(cog_raw, 10)) ELSE None

\* Lines 63-70.
heading_true(th_raw) == IF th_raw # 511 THEN Some(scaled(th_raw, 1)) ELSE None

\* Lines 20-88: the VesselDynamicData of a type-19 bit vector.
vdm_t19_handle(bv, station, own_vessel) ==
  [own_vessel |-> own_vessel,
   station |-> station,
   ais_type |-> "ClassB",
   mmsi |-> pick_u64(bv, 8, 30),
   sog_knots |-> sog_knots(pick_u64(bv, 46, 10)),
   high_position_accuracy |-> pick_u64(bv, 56, 1) # 0,
   longitude |-> longitude(pick_i64(bv, 57, 28)),
   latitude |-> latitude(pick_i64(bv, 85, 27)),
   cog |-> cog(pick_u64(bv, 112, 12)),
   heading_true |-> heading_true(pick_u64(bv, 124, 9)),
   timestamp_seconds |-> pick_u64(bv, 133, 6),
   class_b_unit_flag |-> None,
   class_b_display |-> None,
   class_b_dsc |-> None,
   class_b_band_flag |-> None,
   class_b_msg22_flag |-> None,
   class_b_mode_flag |-> None,
   raim_flag |-> pick_u64(bv, 305, 1) # 0,
   class_b_css_flag |-> None,
   radio_status |-> None,
   nav_status |-> "NotDefined",
   rot |-> None,
   rot_direction |-> None,
   positioning_system_meta |-> None,
   current_gnss_position |-> None,
   special_manoeuvre |-> None]

\* The record of the handler of module, for the handler among the sources.
handler_message(module, bv, station, own_vessel) ==
  IF module = "ais_vdm_t19" THEN Some(vdm_t19_handle(bv, station, own_vessel)) ELSE None

AisHandler(module, bv, station, own) ==
  [Result("Handler", module) EXCEPT !.bv = bv, !.station = station, !.own = own,
                                    !.message = handler_message(module, bv, station, own)]

(***************************************************************************)
(* AIS: reassembly and message-type dispatch (lib.rs 210-415)              *)
(***************************************************************************)

\* Lines 257-260: the keys of the two fragments of the sentence's transmission.
fragment_keys_unchanneled(sentence_type, f) ==
  [key1 |-> make_fragment_key(sentence_type, f.message_id[1], f.fragment_count, 1, << >>),
   key2 |-> make_fragment_key(sentence_type, f.message_id[1], f.fragment_count, 2, << >>)]

fragment_keys(sentence_type, f) ==
  [key1 |-> make_fragment_key(sentence_type, f.message_id[1], f.fragment_count, 1,
                              unwrap_or(f.radio_channel_code, << >>)),
   key2 |-> make_fragment_key(sentence_type, f.message_id[1], f.fragment_count, 2,
                              unwrap_or(f.radio_channel_code, << >>))]

\* Lines 263-264: fragment 1 arrives second; p is the stored fragment 2.
combine_first_swapped(payload_string, p) == p \o payload_string

combine_first(payload_string, p) == payload_string \o p

\* Lines 271-272: fragment 2 arrives second; p is the stored fragment 1.
combine_second_swapped(p, payload_string) == payload_string \o p

combine_second_drops(p, payload_string) == payload_string

combine_second(p, payload_string) == p \o payload_string

\* Lines 262-265 and 270-273: the partner was in the store; pulled is what
\* pull_string gave, combined the two payloads in order.
complete_keeps(nmea_store, pulled, key, combined) ==
  [unpacked |-> Some(combined), bv |-> parse_payload(combined),
   store |-> nmea_store, pulled |-> Some(key), pushed |-> None]

complete(nmea_store, pulled, key, combined) ==
  [unpacked |-> Some(combined), bv |-> parse_payload(combined),
   store |-> pulled.store, pulled |-> Some(key), pushed |-> None]

\* Lines 267 and 275: the partner was not in the store; the fragment waits.
buffer_evicts(nmea_store, key, payload_string) ==
  [unpacked |-> None, bv |-> None,
   store |-> push_string([k \in {} |-> << >>], key, payload_string),
   pulled |-> None, pushed |-> Some(key)]

buffer(nmea_store, key, payload_string) ==
  [unpacked |-> None, bv |-> None,
   store |-> push_string(nmea_store, key, payload_string),
   pulled |-> None, pushed |-> Some(key)]

\* Lines 252-285: the payload handed to parse_payload (None when the call
\* unpacks nothing), the bit vector it gives (None when there is none, or the
\* payload does not unpack), the store afterwards, and the key pulled and
\* the key pushed by this call.
no_payload(nmea_store) ==
  [unpacked |-> None, bv |-> None, store |-> nmea_store,
   pulled |-> None, pushed |-> None]

\* Lines 253-254: a single fragment is unpacked as it is.
single_fragment(nmea_store, payload_string) ==
  [unpacked |-> Some(payload_string), bv |-> parse_payload(payload_string),
   store |-> nmea_store, pulled |-> None, pushed |-> None]

\* Lines 261-268: fragment 1; pulled is what pull_string(key2) gave.
first_fragment_buffers(nmea_store, payload_string, keys, pulled) ==
  buffer(nmea_store, keys.key1, payload_string)

first_fragment(nmea_store, payload_string, keys, pulled) ==
  IF pulled.value # None
    THEN complete(nmea_store, pulled, keys.key2,
                  combine_first(payload_string, pulled.value[1]))
    ELSE buffer(pulled.store, keys.key1, payload_string)

\* Lines 269-276: fragment 2; pulled is what pull_string(key1) gave.
second_fragment(nmea_store, payload_string, keys, pulled) ==
  IF pulled.value # None
    THEN complete(nmea_store, pulled, keys.key1,
                  combine_second(pulled.value[1], payload_string))
    ELSE buffer(pulled.store, keys.key2, payload_string)

\* Lines 257-279: a fragment of two with message id.
fragment_of_two(nmea_store, f, keys) ==
  IF f.fragment_number = 1
    THEN first_fragment(nmea_store, f.payload_string, keys,
                        pull_string(nmea_store, keys.key2))
  ELSE IF f.fragment_number = 2
    THEN second_fragment(nmea_store, f.payload_string, keys,
                         pull_string(nmea_store, keys.key1))
  ELSE no_payload(nmea_store)

reassemble(nmea_store, sentence_type, f) ==
  IF f.fragment_count = 1 THEN single_fragment(nmea_store, f.payload_string)
  ELSE IF f.fragment_count = 2 /\ f.message_id # None
    THEN fragment_of_two(nmea_store, f, fragment_keys(sentence_type, f))
  ELSE no_payload(nmea_store)

\* Lines 294-406: the module whose handler takes the message type, "" for none.
handler_module_19_as_18(message_type) ==
  CASE message_type \in {1, 2, 3} -> "ais_vdm_t1t2t3"
    [] message_type = 5 -> "ais_vdm_t5"
    [] message_type \in {18, 19} -> "ais_vdm_t18"
    [] message_type = 24 -> "ais_vdm_t24"
    [] OTHER -> ""

handler_module(message_type) ==
  CASE message_type \in {1, 2, 3} -> "ais_vdm_t1t2t3"
    [] message_type = 5 -> "ais_vdm_t5"
    [] message_type = 18 -> "ais_vdm_t18"
    [] message_type = 19 -> "ais_vdm_t19"
    [] message_type = 24 -> "ais_vdm_t24"
    [] OTHER -> ""

\* Lines 299-401: the types with an arm that returns "Unsupported".
unsupported_type(message_type) ==
  message_type = 4 \/ message_type \in 6..17 \/ message_type \in 20..23

\* Lines 291-411: the match on the message type.
ais_dispatch(message_type, bv, sentence_type, station, own_vessel) ==
  IF handler_module(message_type) # ""
    THEN AisHandler(handler_module(message_type), bv, station, own_vessel)
  ELSE IF unsupported_type(message_type)
    THEN ErrMessageType("Unsupported message type", sentence_type, message_type)
  ELSE ErrMessageType("Unrecognized message type", sentence_type, message_type)

\* Lines 287-414: the decoded bit vector is dispatched on its first six
\* bits; without a bit vector the call returns Incomplete.  The type-24
\* handler is handed the store; by spec.md 4.6.5 and 5 it emits a record
\* and leaves the pending fragments alone.
ais_result(bv, sentence_type, station, own_vessel) ==
  IF bv # None
    THEN ais_dispatch(pick_u64(bv[1], 0, 6), bv[1], sentence_type,
                      unwrap_or(station, "Other"), own_vessel)
    ELSE Incomplete

(***************************************************************************)
(* decode_sentence (lib.rs 51-420)                                         *)
(***************************************************************************)

GnssModule(sentence_type) ==
  CASE sentence_type = << "$", "G", "G", "A" >> -> "gnss_gga"
    [] sentence_type = << "$", "R", "M", "C" >> -> "gnss_rmc"
    [] sentence_type = << "$", "G", "S", "A" >> -> "gnss_gsa"
    [] sentence_type = << "$", "G", "S", "V" >> -> "gnss_gsv"
    [] sentence_type = << "$", "V", "T", "G" >> -> "gnss_vtg"
    [] sentence_type = << "$", "G", "L", "L" >> -> "gnss_gll"
    [] OTHER -> ""

Unimplemented ==
  { << "$", "A", "L", "M" >>, << "$", "H", "D", "T" >>, << "$", "T", "R", "F" >>,
    << "$", "S", "T", "N" >>, << "$", "V", "B", "W" >>, << "$", "X", "T", "C" >>,
    << "$", "X", "T", "E" >>, << "$", "Z", "D", "A" >>, << "$", "B", "O", "D" >>,
    << "$", "R", "M", "A" >> }

VdmVdo == { << "!", "V", "D", "M" >>, << "!", "V", "D", "O" >> }

\* A call that ends before the store is used, with its result.
Done(result) ==
  [done |-> Some(result), sentence_type |-> << >>, station |-> None,
   own_vessel |-> FALSE, f |-> None]

\* Lines 211-249: a !VDM or !VDO sentence with its fields f.
framed_ais(h, f) ==
  IF f.err THEN Done(ErrFragmentField)
  ELSE [done |-> None, sentence_type |-> h.sentence_type, station |-> h.station,
        own_vessel |-> (h.sentence_type = << "!", "V", "D", "O" >>), f |-> Some(f)]

\* Lines 84-249 and 416-418: the match on the shortened sentence type of header h.
framed_header(sentence, h) ==
  IF h.panic THEN Done(Panic)
  ELSE IF GnssModule(h.sentence_type) # ""
    THEN Done(GnssHandler(GnssModule(h.sentence_type), sentence,
                          unwrap_or(h.nav_system, "Other")))
  ELSE IF h.sentence_type \in Unimplemented
    THEN Done(ErrSentence("Unimplemented NMEA sentence", h.sentence_type))
  ELSE IF h.sentence_type \in VdmVdo THEN framed_ais(h, ais_fields(sentence))
  ELSE Done(ErrSentence("Unsupported sentence", h.sentence_type))

\* Lines 76-82: the sentence type st, if there is one.
framed_type(sentence, st) ==
  IF st = None THEN Done(ErrInvalid(sentence)) ELSE framed_header(sentence, header(st[1]))

\* Lines 70-73: the checksum gate on the split sentence cs.
framed_checksum(cs) ==
  IF checksum_rejects(cs.sentence, cs.checksum_hex_given) THEN Done(ErrCorrupted)
  ELSE framed_type(cs.sentence, sentence_type_of(cs.sentence))

\* Lines 57-249: everything the call does before it uses the store.  done is
\* the result of a call that ends there: a checksum, format or field error, a
\* panic, an unimplemented or unsupported sentence, or what a GNSS handler
\* returns (the GNSS handlers are collaborators outside the core; the pending
\* fragments are not theirs).  Otherwise the sentence is a !VDM or !VDO
\* sentence with its fields parsed.
frame(sentence) == framed_checksum(checksum_split(sentence))

(***************************************************************************)
(* The sentences fed to the decoder                                        *)
(***************************************************************************)

AIVDM == << "!", "A", "I", "V", "D", "M" >>
ABVDM == << "!", "A", "B", "V", "D", "M" >>
AIVDO == << "!", "A", "I", "V", "D", "O" >>

\* header,count,number,id,channel,payload,fill
Ais(hdr, count, number, id, channel, payload) ==
  hdr \o << "," >> \o count \o << "," >> \o number \o << "," >> \o id \o << "," >>
      \o channel \o << "," >> \o payload \o << ",", "0" >>

\* The most pending fragments a store holds in the model; the code sets no limit.
MaxPending == 2

\* Type 5, type 24, and a character outside the armor range.
Payloads == { << "5" >>, << "H" >>, << "~" >> }

Frag1 == << << "1" >>, << "5" >> >>
Frag2 == << << "2" >>, << "H" >> >>

\* Two transmissions that differ in the channel: every payload as fragment 1
\* and as fragment 2 of the first, a type-5 pair of the second.
FragmentSentences ==
  { Ais(AIVDM, << "2" >>, n, << "3" >>, << "A" >>, p) :
      n \in { << "1" >>, << "2" >> }, p \in Payloads }
  \cup
  { Ais(AIVDM, << "2" >>, np[1], << "3" >>, << "B" >>, np[2]) : np \in { Frag1, Frag2 } }

\* The first transmission as another talker reports it.
TalkerSentences ==
  { Ais(ABVDM, << "2" >>, np[1], << "3" >>, << "A" >>, np[2]) : np \in { Frag1, Frag2 } }

\* Sentences that leave the store alone: single fragments (type 5, type 24,
\* bad armor), a fragment without message id, a wrong checksum, a sentence
\* without ',', a fragment count that is no number, and two GNSS sentences
\* (GSV's handler is handed the store, GGA's is not).
QuietSentences ==
  { Ais(AIVDM, << "1" >>, << "1" >>, << >>, << "A" >>, << "5", "H" >>),
    Ais(AIVDM, << "1" >>, << "1" >>, << >>, << "A" >>, << "H", "5" >>),
    Ais(AIVDM, << "1" >>, << "1" >>, << >>, << "A" >>, << "~" >>),
    Ais(AIVDM, << "2" >>, << "1" >>, << >>, << "A" >>, << "5" >>),
    Ais(AIVDM, << "2" >>, << "1" >>, << "3" >>, << "A" >>, << "5" >>) \o << "*", "0", "0" >>,
    AIVDM,
    AIVDM \o << ",", "x" >>,
    << "$", "G", "P", "G", "S", "V", ",", "1" >>,
    << "$", "G", "P", "G", "G", "A", ",", "1" >> }

\* The single-fragment sentence that carries payload under header hdr.
SingleOf(hdr, channel, payload) ==
  Ais(hdr, << "1" >>, << "1" >>, << >>, channel, payload)

SingleSentences ==
  { SingleOf(h, c, a \o b) :
      h \in { AIVDM, ABVDM, AIVDO }, c \in { << "A" >>, << "B" >> },
      a \in Payloads, b \in Payloads }

\* Four transmissions: the first, and one differing from it in the family
\* only, one in the message id only, one in the channel only.
InterleavedSentences ==
  { Ais(t[1], << "2" >>, np[1], t[2], t[3], np[2]) :
      t \in { << AIVDM, << "3" >>, << "A" >> >>, << AIVDO, << "3" >>, << "A" >> >>,
              << AIVDM, << "7" >>, << "A" >> >>, << AIVDM, << "3" >>, << "B" >> >> },
      np \in { Frag1, Frag2 } }

\* A fragment number past the count, and three fragments.
StraySentences ==
  { Ais(AIVDM, << "2" >>, << "3" >>, << "3" >>, << "A" >>, << "5" >>),
    Ais(AIVDM, << "3" >>, << "1" >>, << "3" >>, << "A" >>, << "5" >>) }

\* The armor character of a six-bit value: '0'..'W' for 0..39, 'X' for 40,
\* 'a'..'w' for 41..63.
ArmorChar(v) == IF v <= 40 THEN Ascii[v + 17] ELSE Ascii[v + 25]

\* One single-fragment sentence per message type and family, the empty
\* payload, and two-fragment pairs of chosen types.
TypeSentences ==
  { SingleOf(AIVDM, << "A" >>, << ArmorChar(v) >>) : v \in 0..63 }
  \cup { SingleOf(AIVDO, << "B" >>, << ArmorChar(v) >>) : v \in { 0, 1, 4, 5, 18, 19, 24 } }
  \cup { SingleOf(AIVDM, << "A" >>, << >>) }

PairedTypes == { 4, 19, 63 }

TypePairSentences ==
  { Ais(ABVDM, << "2" >>, << "1" >>, << "3" >>, << "A" >>, << ArmorChar(v) >>) :
      v \in PairedTypes }
  \cup { Ais(ABVDM, << "2" >>, << "2" >>, << "3" >>, << "A" >>, << "0" >>) }

\* Sentence types as they come: well formed, unimplemented, unknown, too
\* long, too short, empty, without the leading '$' or '!'.
FrameHeaders ==
  { AIVDM, AIVDO,
    << "$", "G", "P", "G", "G", "A" >>, << "$", "G", "P", "G", "S", "V" >>,
    << "$", "Q", "Z", "R", "M", "C" >>, << "$", "G", "P", "Z", "D", "A" >>,
    << "$", "G", "P", "X", "Y", "Z" >>, << "!", "A", "I", "X", "Y", "Z" >>,
    << "!", "A", "I", "V", "D", "M", "X" >>, << "$", "G", "P", "G", "G", "A", "X" >>,
    << "$", "G", "P" >>, << "$", "G", "P", "G", "G" >>, << "$", "G" >>, << "$" >>,
    << "!" >>, << "!", "A", "I" >>, << "!", "V", "D", "M" >>,
    << >>, << "G", "P", "G", "G", "A" >>, << "A" >> }

FrameTails ==
  { << >>, << ",", "1" >>,
    << ",", "1", ",", "1", ",", ",", "A", ",", "5", ",", "0" >>,
    << ",", "2", ",", "1", ",", "3", ",", "A", ",", "5", ",", "0" >>,
    << ",", "2", ",", "2", ",", "3", ",", "A", ",", "H", ",", "0" >>,
    << ",", "2", ",", "y", ",", "3", ",", "A", ",", "H", ",", "0" >>,
    << ",", "1", ",", "1", ",", ",", "A", ",", "5", "*", "5", ",", "0" >> }

Lower(c) ==
  CASE c = "A" -> "a" [] c = "B" -> "b" [] c = "C" -> "c" [] c = "D" -> "d"
    [] c = "E" -> "e" [] c = "F" -> "f" [] OTHER -> c

\* Bit k (1 the most significant) of byte n, and of the exclusive or of the
\* bytes of body after the first.
BitOf(n, k) == (n \div (2 ^ (8 - k))) % 2
XorBit(body, k) ==
  Cardinality({ i \in 2..Len(body) : BitOf(Ord(body[i]), k) = 1 }) % 2

HexOf(n) == << HexUpper[(n \div 16) + 1], HexUpper[(n % 16) + 1] >>

\* The two uppercase hex digits of the XOR of all bytes of body after its
\* first character.
ExpectedHex(body) ==
  HexOf(128 * XorBit(body, 1) + 64 * XorBit(body, 2) + 32 * XorBit(body, 3)
        + 16 * XorBit(body, 4) + 8 * XorBit(body, 5) + 4 * XorBit(body, 6)
        + 2 * XorBit(body, 7) + XorBit(body, 8))

\* A body as it may arrive (every variant for the AIS and GGA bodies, the
\* bare one and the one with the right checksum for the others): bare, with
\* an empty checksum, with the right one hex, with the right one in lower
\* case, with a wrong one, with a digit too many.
Variants(body, hex) ==
  { body, body \o << "*" >>, body \o << "*" >> \o hex,
    body \o << "*", Lower(hex[1]), Lower(hex[2]) >>,
    body \o << "*", hex[2], (IF hex[1] = "0" THEN "1" ELSE "0") >>,
    body \o << "*" >> \o hex \o << "0" >> }

FrameVariants(body) == Variants(body, ExpectedHex(body))

FrameSentences ==
  UNION { FrameVariants(h \o t) :
            h \in { AIVDM, << "$", "G", "P", "G", "G", "A" >> }, t \in FrameTails }
  \cup UNION { { h \o t, h \o t \o << "*" >> \o ExpectedHex(h \o t) } :
                 h \in FrameHeaders, t \in { << >>, << ",", "1" >> } }

\* Type-19 reports (Extended Class B position report, spec.md 4.6.4).
\* The w bits of v, most significant first; a negative v in two's complement.
bits_of(v, w) == [i \in 1..w |-> (v \div (2 ^ (w - i))) % 2]
twos(v, w) == bits_of((v + 2 ^ w) % (2 ^ w), w)
zeros(w) == [i \in 1..w |-> 0]

\* The payload of a bit vector: one armor character for every six bits.
armor(bits) ==
  [j \in 1..(Len(bits) \div 6) |->
     ArmorChar(bits_value(SubSeq(bits, 6 * j - 5, 6 * j)))]

\* The 312 bits of a type-19 report of station 994097035 (spec.md 4.6.4).
T19Bits(sog, lon, lat, course, heading) ==
  bits_of(19, 6) \o bits_of(0, 2) \o bits_of(994097035, 30) \o zeros(8)
    \o bits_of(sog, 10) \o << 0 >> \o twos(lon, 28) \o twos(lat, 27)
    \o bits_of(course, 12) \o bits_of(heading, 9) \o bits_of(48, 6) \o zeros(173)

T19Sentence(sog, lon, lat, course, heading) ==
  SingleOf(AIVDM, << "A" >>, armor(T19Bits(sog, lon, lat, course, heading)))

\* Raw longitudes and latitudes: zero, the ends of the range and the values
\* next to them, the sentinel, the ends of the field, and those of the
\* sentence of test_parse_vdm_type19.
LonRaws ==
  { 0, 108000000, 108000001, 108600000, -108000000, -108000001,
    134217727, -134217728, -88753307 }
LatRaws ==
  { 0, 54000000, 54000001, 54600000, -54000000, -54000001,
    67108863, -67108864, -3600651 }

\* Raw speeds, courses and headings: zero, the sentinel and the values
\* next to it, the end of the field.
SogRaws == { 0, 11, 1022, 1023 }
CogRaws == { 0, 3599, 3600, 3601, 3886, 4095 }
HeadingRaws == { 0, 359, 510, 511 }

\* vdm_t19.rs 98: the sentence of test_parse_vdm_type19.
TestSentence ==
  << "!", "A", "I", "V", "D", "M", ",", "1", ",", "1", ",", ",", ",",
     "C", ">", "l", "2", "o", "R", "h", "0", "2", "m", "F", "e", "n", "j", "w",
     "9", "3", "g", "G", "j", "s", "w", "p", "1", "k", "k", "a", "Q", "k", "g",
     "Q", "W", "c", "1", "1", "1", "1", "1", "1", "1", "1", "1", "j", "d", "0",
     "0", "0", "0", "0", "0", "2", "P", ",", "0", "*", "2", "F" >>

\* Reports that vary the position, a report cut short after its type, and
\* the sentence of the test.
PositionSentences ==
  { T19Sentence(11, lon, lat, 3886, 511) : lon \in LonRaws, lat \in LatRaws }
    \cup { SingleOf(AIVDO, << "B" >>, << ArmorChar(19) >>), TestSentence }

\* Reports that vary speed, course and heading.
MotionSentences ==
  { T19Sentence(sog, 0, 0, course, heading) :
      sog \in SogRaws, course \in CogRaws, heading \in HeadingRaws }

T19Sentences == PositionSentences \cup MotionSentences

AllSentences ==
  FragmentSentences \cup TalkerSentences \cup QuietSentences \cup SingleSentences
    \cup InterleavedSentences \cup StraySentences \cup TypeSentences
    \cup TypePairSentences \cup FrameSentences \cup T19Sentences

\* frame of every sentence of the model, tabulated once.
FrameTable == [sentence \in AllSentences |-> frame(sentence)]

framed(sentence) == FrameTable[sentence]

\* The store after a handler that is handed it (gnss_gsv, gnss_vtg, gnss_gll,
\* ais_vdm_t24) has run.  The handlers are not among the source files; by
\* spec.md 4.6.5 and 5 the store is mutated under the dispatcher's control
\* only, so a handler leaves it as it is.
handled(nmea_store) == nmea_store

\* The whole call: its result, the payload it unpacked, the store afterwards,
\* and the store keys the call pulled and pushed.
decode_reassembled(fm, re) ==
  [result |-> ais_result(re.bv, fm.sentence_type, fm.station, fm.own_vessel),
   unpacked |-> re.unpacked, store |-> handled(re.store),
   pulled |-> re.pulled, pushed |-> re.pushed]

decode_framed(fm, nmea_store) ==
  IF fm.done # None
    THEN [result |-> fm.done[1], unpacked |-> None, store |-> handled(nmea_store),
          pulled |-> None, pushed |-> None]
    ELSE decode_reassembled(fm, reassemble(nmea_store, fm.sentence_type, fm.f[1]))

decode_sentence(sentence, nmea_store) == decode_framed(framed(sentence), nmea_store)

(***************************************************************************)
(* The caller: one store, one call of decode_sentence after another        *)
(***************************************************************************)

VARIABLES
  store,     \* the NmeaStore of the caller: key -> pending payload
  origin,    \* history: key -> the transmission and index of the fragment buffered there
  recent,    \* history: transmission -> the last fragment fed for it: its sentence,
             \* whether the store held no entry for the transmission then, and
             \* whether the call completed a pair
  last       \* the last call: sentence, result, payload unpacked, keys pulled and
             \* pushed, and the history of its transmission before the call

vars == << store, origin, recent, last >>

Empty == [k \in {} |-> << >>]

Without(f, k) == [x \in DOMAIN f \ {k} |-> f[x]]
With(f, k, v) == [x \in DOMAIN f \cup {k} |-> IF x = k THEN v ELSE f[x]]

\* What a sentence says of itself once it reaches the reassembly: the family
\* (shortened sentence type), message id, fragment count and channel of its
\* transmission, its fragment number and payload.  None for any other sentence.
fragment_framed(fm) ==
  IF fm.done = None /\ fm.f[1].fragment_count = 2 /\ fm.f[1].message_id # None
    THEN Some([family |-> fm.sentence_type, message_id |-> fm.f[1].message_id[1],
               fragment_count |-> fm.f[1].fragment_count,
               channel |-> unwrap_or(fm.f[1].radio_channel_code, << >>),
               fragment_number |-> fm.f[1].fragment_number,
               payload |-> fm.f[1].payload_string])
    ELSE None

fragment_of(sentence) == fragment_framed(framed(sentence))

transmission_of(frag) ==
  << frag.family, frag.message_id, frag.fragment_count, frag.channel >>

\* The entries of the store that fragments of transmission t left there.
entries_of(t) == { k \in DOMAIN store : origin[k].transmission = t }

NoCall ==
  [sentence |-> << >>, result |-> Result("None", ""), unpacked |-> None,
   pulled |-> None, pushed |-> None, partner |-> None, prior |-> None,
   clean |-> FALSE]

Init ==
  /\ store = Empty
  /\ origin = Empty
  /\ recent = Empty
  /\ last = NoCall

\* The step of the caller for a call that gave d: fr is the fragment of the
\* sentence, t its transmission, clean whether the store held no entry for t.
Step(sentence, d, fr, t, clean) ==
  /\ last.result.kind # "Panic"
  /\ Cardinality(DOMAIN d.store) <= MaxPending
  /\ store' = d.store
  /\ origin' =
       IF d.pushed # None
         THEN With(origin, d.pushed[1],
                   [transmission |-> t, fragment_number |-> fr[1].fragment_number])
       ELSE IF d.pulled # None THEN Without(origin, d.pulled[1])
       ELSE origin
  /\ recent' =
       IF fr = None THEN recent
       ELSE IF fr[1].fragment_number \in {1, 2}
         THEN With(recent, t, [sentence |-> sentence, clean |-> clean,
                               completed |-> d.pulled # None])
       ELSE Without(recent, t)
  /\ last' = [sentence |-> sentence, result |-> d.result, unpacked |-> d.unpacked,
              pulled |-> d.pulled, pushed |-> d.pushed,
              partner |-> IF d.pulled # None /\ d.pulled[1] \in DOMAIN origin
                            THEN Some(origin[d.pulled[1]]) ELSE None,
              prior |-> IF fr # None /\ t \in DOMAIN recent
                          THEN Some(recent[t]) ELSE None,
              clean |-> clean]

Observed(sentence, d, fr) ==
  Step(sentence, d, fr, transmission_of(fr[1]),
       fr # None /\ entries_of(transmission_of(fr[1])) = {})

\* One call decode_sentence(sentence, &mut store).  A panic ends the caller.
Call(sentence) ==
  Observed(sentence, decode_sentence(sentence, store), fragment_of(sentence))

\* Reassembly of two transmissions, with another talker and quiet calls between.
Fragment == \E sentence \in FragmentSentences : Call(sentence)
Talker == \E sentence \in TalkerSentences : Call(sentence)
Quiet == \E sentence \in QuietSentences : Call(sentence)

Next == Fragment \/ Talker \/ Quiet

Spec == Init /\ [][Next]_vars

(***************************************************************************)
(* Claims about the reassembly                                             *)
(***************************************************************************)

\* The fragment, the frame and the keys of the last call.
LastFragment == fragment_of(last.sentence)
LastFrame == framed(last.sentence)
LastKey(n) ==
  make_fragment_key(LastFragment[1].family, LastFragment[1].message_id,
                    LastFragment[1].fragment_count, n, LastFragment[1].channel)

\* The last call fed fragment n of a two-fragment transmission.
LastIs(n) == LastFragment # None /\ LastFragment[1].fragment_number = n

\* The fragment fed last for the same transmission before the last call,
\* with other transmissions only since: it was fragment n.
PriorIs(n) ==
  last.prior # None /\ fragment_of(last.prior[1].sentence)[1].fragment_number = n

\* Fragment n waits since it was fed to a store with no entry for the
\* transmission.
Waiting(n) == PriorIs(n) /\ last.prior[1].clean

PriorPayload == fragment_of(last.prior[1].sentence)[1].payload

\* The text before the first ',' (six characters in every fragment sentence).
Header(sentence) == SubSeq(sentence, 1, 6)

\* What decode_sentence returns for a sentence like the last one whose
\* payload is payload.
Decoding(payload) ==
  ais_result(parse_payload(payload), LastFrame.sentence_type, LastFrame.station,
             LastFrame.own_vessel)

\* C1: fragment 1 of 2 (with message id) fed to a store with no entry for its
\* transmission returns Incomplete and leaves its payload under the index-1
\* key; fragment 2 of the same transmission, fed after any number of calls
\* for other transmissions, returns the decoding of the payload of fragment 1
\* followed by its own, and not Incomplete, when the two unpack.
C1_InOrderReassembly ==
  /\ (LastIs(1) /\ last.clean) =>
       /\ last.result = Incomplete
       /\ LastKey(1) \in DOMAIN store
       /\ store[LastKey(1)] = LastFragment[1].payload
  /\ (/\ LastIs(2) /\ Waiting(1)
      /\ parse_payload(PriorPayload \o LastFragment[1].payload) # None) =>
       /\ last.result = Decoding(PriorPayload \o LastFragment[1].payload)
       /\ last.result # Incomplete

\* Fragment 1 was buffered into a clean store, other calls followed, and
\* fragment 2 completed the pair into a decoded message.
C1_Witness ==
  /\ LastIs(2) /\ Waiting(1)
  /\ PriorPayload = << "5" >> /\ LastFragment[1].payload = << "H" >>
  /\ last.result.kind = "Handler" /\ last.result.tag = "ais_vdm_t5"
  /\ DOMAIN store # {}

\* Fragment 1 completed the pair whose fragment 2 waited: the result and the
\* payload decoded are those of the second call when the two sentences are
\* fed in the order 1, 2 to the store as it is now, without an entry for
\* the transmission.
SameAsInOrder ==
  LET first == decode_sentence(last.sentence, store)
      second == decode_sentence(last.prior[1].sentence, first.store)
      payload == LastFragment[1].payload \o PriorPayload
  IN /\ entries_of(transmission_of(LastFragment[1])) = {}
     /\ first.result = Incomplete
     /\ last.result = second.result
     /\ last.unpacked = Some(payload)
     /\ second.unpacked = Some(payload)

LastSingle(payload) ==
  SingleOf(Header(last.sentence), LastFragment[1].channel, payload)

\* C3 as stated: fragment 2 fed after fragment 1 of its transmission returns
\* what the single-fragment sentence of the same header with the two
\* payloads concatenated returns, whatever the store held when fragment 1
\* was fed.
C3_RoundTripAnyStore ==
  (LastIs(2) /\ PriorIs(1)) =>
    last.result =
      decode_sentence(LastSingle(PriorPayload \o LastFragment[1].payload), store).result

\* C3: fragment 1 fed to a store with no entry for its transmission and then
\* fragment 2 (both with message id) return, on the second call, what the
\* single-fragment sentence of the same header with the two payloads
\* concatenated returns.
C3_RoundTrip ==
  (LastIs(2) /\ Waiting(1)) =>
    last.result =
      decode_sentence(LastSingle(PriorPayload \o LastFragment[1].payload), store).result

\* The pair completed into a decoded message equal to the single sentence's.
C3_Witness ==
  /\ LastIs(2) /\ Waiting(1)
  /\ PriorPayload = << "H" >> /\ LastFragment[1].payload = << "5" >>
  /\ last.result.kind = "Handler" /\ last.result.tag = "ais_vdm_t24"
  /\ last.result =
       decode_sentence(LastSingle(<< "H", "5" >>), store).result

\* C8: a pending fragment that was paired is no longer in the store, and
\* the call that paired it buffers nothing; a further fragment of the index
\* that completed the pair, arriving with no new other half, returns
\* Incomplete and waits under its own key.
C8_ConsumedOnPairing ==
  /\ last.pulled # None =>
       /\ last.pulled[1] \notin DOMAIN store
       /\ last.pushed = None
  /\ \A n \in {1, 2} :
       (LastIs(n) /\ PriorIs(n) /\ last.prior[1].completed) =>
         /\ last.result = Incomplete
         /\ LastKey(n) \in DOMAIN store
         /\ store[LastKey(n)] = LastFragment[1].payload

\* Fragment 2 completed a pair, and fragment 2 came again.
C8_Witness ==
  /\ LastIs(2) /\ PriorIs(2) /\ last.prior[1].completed
  /\ last.result = Incomplete
  /\ last.pushed = Some(LastKey(2))

\* C7: whenever the payload that the call unpacks (of a single fragment, or
\* of a completed pair) holds a character outside the armor range, the call
\* returns the PayloadDecodeFailed error.
C7_PayloadDecodeFailed ==
  (last.unpacked # None /\ \E i \in 1..Len(last.unpacked[1]) : ~armor_ok(last.unpacked[1][i]))
    => (last.result.kind = "Err" /\ last.result.tag = "PayloadDecodeFailed")

\* The differences between the store before and after a step.
Mutations ==
  (DOMAIN store' \ DOMAIN store) \cup (DOMAIN store \ DOMAIN store')
    \cup { k \in DOMAIN store \cap DOMAIN store' : store'[k] # store[k] }

Interleaved == \E sentence \in InterleavedSentences : Call(sentence)
Stray == \E sentence \in StraySentences : Call(sentence)

NextIsolation == Interleaved \/ Stray

SpecIsolation == Init /\ [][NextIsolation]_vars

\* The transmission of the fragment fed last.
LastTransmission == transmission_of(LastFragment[1])

\* C4: a fragment is concatenated only with the pending fragment of its own
\* transmission (same family, message id, fragment count and channel) and of
\* the other index, in index order; a call leaves every pending entry of
\* another transmission in the store as it was.
C4_Isolation ==
  [][ /\ last'.pulled # None =>
           /\ last'.partner # None
           /\ LastFragment' # None
           /\ last'.partner[1].transmission = LastTransmission'
           /\ last'.partner[1].fragment_number = 3 - LastFragment'[1].fragment_number
           /\ last'.unpacked =
                Some(IF LastFragment'[1].fragment_number = 1
                       THEN LastFragment'[1].payload \o store[last'.pulled[1]]
                       ELSE store[last'.pulled[1]] \o LastFragment'[1].payload)
      /\ \A k \in DOMAIN store :
           (LastFragment' = None \/ origin[k].transmission # LastTransmission')
             => (k \in DOMAIN store' /\ store'[k] = store[k]) ]_vars

\* A pair completed while a fragment of another transmission stayed pending.
C4_Witness ==
  /\ last.pulled # None
  /\ last.result.kind = "Handler"
  /\ DOMAIN store # {}
  /\ \A k \in DOMAIN store : origin[k].transmission # LastTransmission

\* Every message type, single and as a pair.
Typed == \E sentence \in TypeSentences : Call(sentence)
TypedPair == \E sentence \in TypePairSentences : Call(sentence)

NextDispatch == Typed \/ TypedPair

SpecDispatch == Init /\ [][NextDispatch]_vars

\* The bit vector of the last call, and its message type.
LastBits == parse_payload(last.unpacked[1])[1]
LastType == pick_u64(LastBits, 0, 6)

\* The handler call of the last call's bit vector, station and own-vessel flag.
Handled(module) ==
  AisHandler(module, LastBits, unwrap_or(LastFrame.station, "Other"),
             LastFrame.own_vessel)

\* C9: every decoded bit vector has a type t in 0..63 and the call returns
\* what the handler of the table returns for 1, 2, 3, 5, 18, 19 and 24, the
\* unsupported-type error for 4, 6..17 and 20..23, and the unrecognized-type
\* error for 0 and 25..63.
C9_DispatchTable ==
  (last.unpacked # None /\ parse_payload(last.unpacked[1]) # None) =>
    /\ LastType \in 0..63
    /\ LastType \in {1, 2, 3} => last.result = Handled("ais_vdm_t1t2t3")
    /\ LastType = 5 => last.result = Handled("ais_vdm_t5")
    /\ LastType = 18 => last.result = Handled("ais_vdm_t18")
    /\ LastType = 19 => last.result = Handled("ais_vdm_t19")
    /\ LastType = 24 => last.result = Handled("ais_vdm_t24")
    /\ LastType \in ({4} \cup (6..17) \cup (20..23)) =>
         last.result =
           ErrMessageType("Unsupported message type", LastFrame.sentence_type, LastType)
    /\ LastType \in ({0} \cup (25..63)) =>
         last.result =
           ErrMessageType("Unrecognized message type", LastFrame.sentence_type, LastType)

\* A completed pair of type 19 went to the type-19 handler.
C9_Witness ==
  /\ last.pulled # None
  /\ last.unpacked = Some(<< ArmorChar(19), "0" >>)
  /\ last.result.kind = "Handler" /\ last.result.tag = "ais_vdm_t19"

\* Well-formed and malformed sentences, with and without checksum.
Framed == \E sentence \in FrameSentences : Call(sentence)

NextFrame == Framed

SpecFrame == Init /\ [][NextFrame]_vars

\* The sentence split at its last '*', as the specification words it.
HasStar(sentence) == \E i \in 1..Len(sentence) : sentence[i] = "*"
LastStar(sentence) ==
  CHOOSE i \in 1..Len(sentence) :
    sentence[i] = "*" /\ \A j \in (i + 1)..Len(sentence) : sentence[j] # "*"
BodyOf(sentence) ==
  IF HasStar(sentence) THEN SubSeq(sentence, 1, LastStar(sentence) - 1) ELSE sentence
SuffixOf(sentence) ==
  IF HasStar(sentence) THEN SubSeq(sentence, LastStar(sentence) + 1, Len(sentence))
  ELSE << >>

\* Of every sentence fed: whether its checksum part is there and is not the
\* expected one, whether it is missing or empty, and the body with the right
\* checksum.  Tabulated once.
GateTable ==
  [sentence \in FrameSentences |->
     [wrong |-> /\ HasStar(sentence)
                /\ SuffixOf(sentence) # << >>
                /\ SuffixOf(sentence) # ExpectedHex(BodyOf(sentence)),
      lower |-> SuffixOf(sentence) =
                  << Lower(ExpectedHex(BodyOf(sentence))[1]),
                     Lower(ExpectedHex(BodyOf(sentence))[2]) >>,
      absent |-> ~HasStar(sentence) \/ SuffixOf(sentence) = << >>,
      right |-> BodyOf(sentence) \o << "*" >> \o ExpectedHex(BodyOf(sentence))]]

\* C5: the call fails with the checksum error iff the sentence has a '*'
\* and the text after the last '*' is not empty and is not the two uppercase
\* hex digits of the XOR of the body's bytes after the first; a sentence
\* without '*' or with nothing after it gives the result and the store that
\* its body with the right checksum gives.
C5_ChecksumGate ==
  [][ LET gate == GateTable[last'.sentence]
      IN /\ last'.result = ErrCorrupted <=> gate.wrong
         /\ gate.absent =>
              /\ last'.result = decode_sentence(gate.right, store).result
              /\ store' = decode_sentence(gate.right, store).store ]_vars

\* A checksum in lower case was rejected.
C5_Witness ==
  /\ last.sentence \in FrameSentences
  /\ GateTable[last.sentence].wrong
  /\ GateTable[last.sentence].lower
  /\ last.result = ErrCorrupted

\* C6: no call panics, whatever the sentence and the store.
C6_NoPanic == last.result.kind # "Panic"

(***************************************************************************)
(* Type 19: Extended Class B position reports (vdm_t19.rs)                 *)
(***************************************************************************)

Position == \E sentence \in PositionSentences : Call(sentence)
Motion == \E sentence \in MotionSentences : Call(sentence)

NextT19 == Position \/ Motion

SpecT19 == Init /\ [][NextT19]_vars

\* The last call went to the type-19 handler; its record and bit vector.
LastT19 == last.result.kind = "Handler" /\ last.result.tag = "ais_vdm_t19"
LastReport == last.result.message[1]

\* The raw field at bits [lo, hi) of the last bit vector, and its value as
\* a two's complement number of hi - lo bits.
RawAt(lo, hi) == pick_u64(last.result.bv, lo, hi - lo)
SignedAt(lo, hi) ==
  IF RawAt(lo, hi) >= 2 ^ (hi - lo - 1)
    THEN RawAt(lo, hi) - 2 ^ (hi - lo) ELSE RawAt(lo, hi)

\* The value v of the record lies in [-degrees, degrees].
Within(v, degrees) ==
  /\ -(degrees * v.den) <= v.num
  /\ v.num <= degrees * v.den

\* C11: for every bit vector the type-19 handler takes, longitude is absent
\* if the signed raw at [57,85) is 0x6791AC0 and else is raw/600000 and lies
\* in [-180, 180]; latitude is absent if the signed raw at [85,112) is
\* 0x3412140 and else is raw/600000 and lies in [-90, 90].
C11_PositionRange ==
  LastT19 =>
    /\ SignedAt(57, 85) = 108600000 => LastReport.longitude = None
    /\ SignedAt(57, 85) # 108600000 =>
         /\ LastReport.longitude = Some(scaled(SignedAt(57, 85), 600000))
         /\ Within(LastReport.longitude[1], 180)
    /\ SignedAt(85, 112) = 54600000 => LastReport.latitude = None
    /\ SignedAt(85, 112) # 54600000 =>
         /\ LastReport.latitude = Some(scaled(SignedAt(85, 112), 600000))
         /\ Within(LastReport.latitude[1], 90)

\* C12: for every bit vector the type-19 handler takes, sog_knots is absent
\* exactly when the raw at [46,56) is 1023, cog exactly when the raw at
\* [112,124) is 3600, heading_true exactly when the raw at [124,133) is 511;
\* every other raw is returned scaled (sog raw/10, cog raw/10, heading raw),
\* so a cog raw in 3601..4095 gives a course above 360; nav_status is
\* NotDefined, rot is absent and ais_type is ClassB.
C12_SentinelHandling ==
  LastT19 =>
    /\ LastReport.sog_knots = None <=> RawAt(46, 56) = 1023
    /\ RawAt(46, 56) # 1023 =>
         LastReport.sog_knots = Some(scaled(RawAt(46, 56), 10))
    /\ LastReport.cog = None <=> RawAt(112, 124) = 3600
    /\ RawAt(112, 124) # 3600 =>
         LastReport.cog = Some(scaled(RawAt(112, 124), 10))
    /\ RawAt(112, 124) \in 3601..4095 =>
         LastReport.cog[1].num > 360 * LastReport.cog[1].den
    /\ LastReport.heading_true = None <=> RawAt(124, 133) = 511
    /\ RawAt(124, 133) # 511 =>
         LastReport.heading_true = Some(scaled(RawAt(124, 133), 1))
    /\ LastReport.nav_status = "NotDefined"
    /\ LastReport.rot = None
    /\ LastReport.ais_type = "ClassB"

\* The sentence of test_parse_vdm_type19 gave what the test expects: speed
\* 1.1, course 388.6, no heading.
C12_Witness ==
  /\ last.sentence = TestSentence
  /\ LastT19
  /\ LastReport.mmsi = 994097035
  /\ LastReport.sog_knots = Some(scaled(11, 10))
  /\ LastReport.cog = Some(scaled(3886, 10))
  /\ LastReport.heading_true = None
  /\ LastReport.timestamp_seconds = 48

(***************************************************************************)
(* The pending fragments of a transmission                                 *)
(***************************************************************************)

\* The key of the other fragment of the transmission of key k.
PartnerKey(k) == make_fragment_key(k[1], k[2], k[3], 3 - k[4], k[5])

\* C13: from the empty store on, the store never holds both the index-1 and
\* the index-2 entry of one transmission, and a call buffers a fragment only
\* when the store it is given holds no entry of the fragment's partner.
C13_PendingPairExclusion ==
  /\ [](\A k \in DOMAIN store : PartnerKey(k) \notin DOMAIN store)
  /\ [][last'.pushed # None =>
          /\ PartnerKey(last'.pushed[1]) \notin DOMAIN store
          /\ PartnerKey(last'.pushed[1]) \notin DOMAIN store']_vars

\* A fragment 1 was buffered while a fragment 2 of another transmission waits.
C13_Witness ==
  /\ last.pushed # None
  /\ last.pushed[1][4] = 1
  /\ \E k \in DOMAIN store : k[4] = 2 /\ k # PartnerKey(last.pushed[1])

====
